---- MODULE Spec2Model ----
(***************************************************************************)
(* Synaptic Resonator: the deterministic waveform / fragment generator     *)
(* (synaptic_resonator/generator.py), the /resonate handler (main.py) and  *)
(* the raw-PCM command line utility (play_audio.py).                       *)
(*                                                                         *)
(* Conventions of the model                                                *)
(*   - a text is a sequence of Unicode code points (ord(c) is the element) *)
(*   - a duration is a whole number of quarter seconds (exact in binary    *)
(*     floating point, so sample_rate*duration is computed exactly)        *)
(*   - a float64 sample is a quotient <<num, den>>: den = 10 before the    *)
(*     buffer is normalized (whole tenths), the peak after; <<0, 0>> is    *)
(*     0/0 = nan                                                           *)
(*   - a float32 is its IEEE-754 fields <<sign, biased exponent, mantissa>>*)
(*   - a byte is a number in 0..255                                        *)
(***************************************************************************)
EXTENDS Integers, Sequences, FiniteSets, TLC

\* ------------------------------------------------------------- bounds
MaxQuarters == 7
MaxRate == 2
MaxSamples == 2
MaxTextLen == 3
NumCalls == 3
MaxBuffer == 2

\* ------------------------------------------------- program constants
FreqCount == 5
DefaultQuarters == 8
AbstractCount == 3
BytesPerSample == 4
WavFrameRate == 44100
WavChannels == 1
WavSampWidth == 2
Int16Scale == 32767
NoiseGainTenths == 1

\* ------------------------------------------------------ small helpers
RECURSIVE Pow2(_)
Pow2(k) == IF k = 0 THEN 1 ELSE 2 * Pow2(k - 1)

Abs(x) == IF x < 0 THEN -x ELSE x

RECURSIVE SeqSum(_)
SeqSum(s) == IF s = <<>> THEN 0 ELSE Head(s) + SeqSum(Tail(s))

RECURSIVE SeqMax(_)
SeqMax(s) == IF Len(s) = 1 THEN s[1]
             ELSE LET m == SeqMax(Tail(s)) IN IF s[1] > m THEN s[1] ELSE m

RECURSIVE Flatten(_)
Flatten(ss) == IF ss = <<>> THEN <<>> ELSE Head(ss) \o Flatten(Tail(ss))

SeqsUpTo(S, n) == UNION {[1..k -> S] : k \in 0..n}

\* ------------------------------------------------------------- inputs
\* Code points the bounded texts are built from: NUL, space, "a", "b".
Alphabet == {0, 32, 97, 98}

Texts == SeqsUpTo(Alphabet, MaxTextLen)

\* Texts given to generate_waveform: "", "a", "a b".
WaveTexts == {<<>>, <<97>>, <<97, 32, 98>>}

\* Texts posted to /resonate: "", "a b".
ResonateTexts == {<<>>, <<97, 32, 98>>}

\* (duration in quarter seconds, sample_rate) with positive values.
Durations == 1..MaxQuarters
Rates == 1..MaxRate

\* -------------------------------------------------------- generator.py
\* uuid.uuid5(uuid.NAMESPACE_DNS, text).int & 0xFFFFFFFF, as <<high 16 bits,
\* low 16 bits>>; the values are those of the SHA-1 based uuid5.
Uuid5Low32(text) ==
    CASE text = <<>>            -> <<37788, 2407>>
      [] text = <<97>>          -> <<31111, 56270>>
      [] text = <<97, 32, 98>>  -> <<61819, 16327>>

\* sum(ord(c) for c in text), as <<high 16 bits, low 16 bits>>.
FragmentSeed(text) == <<SeqSum(text) \div 65536, SeqSum(text) % 65536>>

\* np.random.default_rng(seed): the generator state a seed expands to.
\* The bit generator is a deterministic function of the seed alone; a
\* 16-bit Lehmer generator stands for PCG64.
DefaultRng(seed) == (seed[1] * 3 + seed[2]) % 65537

RngNext(s) == (s * 75 + 74) % 65537

RECURSIVE RngAfter(_, _)
RngAfter(s, k) == IF k = 0 THEN s ELSE RngAfter(RngNext(s), k - 1)

\* The value the generator in state s picks from the ordered domain dom.
RngPick(s, dom) == dom[(RngNext(s) % Len(dom)) + 1]

\* Values a draw may return: uniform(100, 1200) frequencies in Hz,
\* uniform(0, 2*pi) phases in quarter turns (0.0, 2*pi*0.25, 2*pi*0.75),
\* standard_normal() values.
FreqValues == <<120, 660>>
PhaseValues == <<0, 1, 3>>
NormalValues == <<0, 10, -10>>

\* The phases at an odd number of quarter turns.
OddPhaseValues == <<1, 3>>

\* The phases drawn for the time axis t.  In float64 np.sin(0.0) is 0.0, and
\* np.sin is 1.0 or -1.0 at every odd number of quarter turns the bounded
\* frequencies and time axes reach; at a whole number of half turns other
\* than the argument 0.0 it is a residue of about 1e-13, never 0.0, which
\* the arithmetic below does not carry.  The phase 0.0 is therefore drawn
\* only for time axes that do not leave t = 0; on longer axes every angle
\* is an odd number of quarter turns.
PhasesFor(t) == IF Len(t) <= 1 THEN PhaseValues ELSE OddPhaseValues

\* round(x) of Python for x = num/den >= 0: nearest, ties to even.
PyRound(num, den) ==
    LET q == num \div den
        r == num % den
    IN  IF 2 * r < den THEN q
        ELSE IF 2 * r > den THEN q + 1
        ELSE IF q % 2 = 0 THEN q ELSE q + 1

\* The sample count rounded instead of truncated.
SampleCountRounded(quarters, rate) == PyRound(rate * quarters, 4)

\* int(sample_rate*duration): truncation of the (exact) product.
SampleCount(quarters, rate) == (rate * quarters) \div 4

\* np.linspace(0, duration, n, endpoint=False): t[k] = k*(duration/n), kept
\* as <<numerator, denominator>> in seconds.
Linspace(quarters, n) == [k \in 1..n |-> <<(k - 1) * quarters, 4 * n>>]

\* np.sin of a quarter turns where float64 gives an exact value: 0.0 for
\* the argument 0.0 alone, 1.0 and -1.0 at odd numbers of quarter turns.
\* No other angle is evaluated.
SinQ(a) == CASE a = 0 -> 0
             [] a % 4 = 1 -> 1
             [] a % 4 = 3 -> -1

\* 2*pi*freq*t + phase in quarter turns (4*freq*t is whole for the bounded
\* frequencies and time axes).
Angle(freq, tk, phase) == (4 * freq * tk[1]) \div tk[2] + phase

\* np.zeros_like(t)
ZerosLike(t) == [k \in 1..Len(t) |-> <<0, 10>>]

\* waveform += np.sin(2*np.pi*freqs[i]*t + phase)
MixComponent(waveform, t, freq, phase) ==
    [k \in 1..Len(waveform) |->
        <<waveform[k][1] + 10 * SinQ(Angle(freq, t[k], phase)), 10>>]

\* waveform += 0.1*noise
AddNoise(waveform, noise) ==
    [k \in 1..Len(waveform) |-> <<waveform[k][1] + NoiseGainTenths * noise[k], 10>>]

\* np.max(np.abs(waveform)) of a non-empty buffer, in tenths.
PeakAbs(waveform) == SeqMax([k \in 1..Len(waveform) |-> Abs(waveform[k][1])])

\* x / peak in float64, x and peak in tenths; 0/0 is nan and does not raise.
Divide(x, peak) == <<x, peak>>

IsNaN64(x) == x[2] = 0

\* waveform /= np.max(np.abs(waveform))
NormalizeBuffer(waveform) ==
    [k \in 1..Len(waveform) |-> Divide(waveform[k][1], PeakAbs(waveform))]

\* ------------------------------------------------------------ float32
NaN32 == <<1, 255, 4194304>>

IsNaN32(f) == f[2] = 255 /\ f[3] # 0

\* Smallest k >= 0 with a * 2^k >= d, for 0 < a <= d.
RECURSIVE ShiftToOne(_, _)
ShiftToOne(a, d) == IF a >= d THEN 0 ELSE 1 + ShiftToOne(2 * a, d)

\* Round num/den to the nearest integer, ties to even (num, den > 0).
RoundHalfEven(num, den) ==
    LET q == num \div den
        r == num % den
    IN  IF 2 * r < den THEN q
        ELSE IF 2 * r > den THEN q + 1
        ELSE IF q % 2 = 0 THEN q ELSE q + 1

\* .astype(np.float32) of a quotient of magnitude at most 1.
AsFloat32(x) ==
    IF IsNaN64(x) THEN NaN32
    ELSE IF x[1] = 0 THEN <<0, 0, 0>>
    ELSE LET a == Abs(x[1])
             k == ShiftToOne(a, x[2])
             m == RoundHalfEven(a * Pow2(k) * 8388608, x[2])
             s == IF x[1] < 0 THEN 1 ELSE 0
         IN  IF m = 16777216 THEN <<s, 128 - k, 0>>
             ELSE <<s, 127 - k, m - 8388608>>

\* ndarray.tobytes() of one float32: four bytes, least significant first.
Float32Bytes(f) ==
    << f[3] % 256,
       (f[3] \div 256) % 256,
       (f[2] % 2) * 128 + f[3] \div 65536,
       f[1] * 128 + f[2] \div 2 >>

ToBytes(buffer) == Flatten([k \in 1..Len(buffer) |-> Float32Bytes(buffer[k])])

\* --------------------------------------------------------- fragments
\* str.isspace() on the code points of the alphabet (and ASCII at large).
IsSpace(c) == c \in {9, 10, 11, 12, 13, 28, 29, 30, 31, 32}

\* text.split(): maximal runs of non-whitespace, in order.
RECURSIVE SplitFrom(_, _, _)
SplitFrom(text, k, cur) ==
    IF k > Len(text)
    THEN IF cur = <<>> THEN <<>> ELSE <<cur>>
    ELSE IF IsSpace(text[k])
         THEN (IF cur = <<>> THEN <<>> ELSE <<cur>>) \o SplitFrom(text, k + 1, <<>>)
         ELSE SplitFrom(text, k + 1, Append(cur, text[k]))

Split(text) == SplitFrom(text, 1, <<>>)

\* An element read back from the fixed-width unicode array rng.choice
\* builds from the list: trailing NUL code points are padding and dropped.
RECURSIVE StripTrailingNul(_)
StripTrailingNul(w) ==
    IF w # <<>> /\ w[Len(w)] = 0 THEN StripTrailingNul(SubSeq(w, 1, Len(w) - 1))
    ELSE w

ArrayItem(words, idx) == StripTrailingNul(words[idx + 1])

\* "echo"
Fallback == <<101, 99, 104, 111>>

\* ["veil", "echo", "rift", "pulse", "haze", "shard", "lumen", "flux"]
Abstract == << <<118, 101, 105, 108>>, <<101, 99, 104, 111>>,
               <<114, 105, 102, 116>>, <<112, 117, 108, 115, 101>>,
               <<104, 97, 122, 101>>, <<115, 104, 97, 114, 100>>,
               <<108, 117, 109, 101, 110>>, <<102, 108, 117, 120>> >>

\* " ".join(parts)
RECURSIVE Join(_)
Join(parts) ==
    IF parts = <<>> THEN <<>>
    ELSE IF Len(parts) = 1 THEN parts[1]
    ELSE parts[1] \o <<32>> \o Join(Tail(parts))

\* f"{cryptic_word} {fragment}"
FormatFragment(cryptic_word, fragment_words) ==
    cryptic_word \o <<32>> \o Join(fragment_words)

\* ---------------------------------------------------------- raw PCM
\* A decoder that takes any length and reads the whole samples in it.
FromBufferAcceptsAny(data) == TRUE

\* np.frombuffer(data, dtype=np.float32) accepts only whole samples.
FromBufferAccepts(data) == Len(data) % BytesPerSample = 0

\* The four bytes read most significant first.
Float32FromBytesBigEndian(b) ==
    << b[1] \div 128,
       (b[1] % 128) * 2 + b[2] \div 128,
       (b[2] % 128) * 65536 + b[3] * 256 + b[4] >>

\* One little-endian float32 read back from four bytes.
Float32FromBytes(b) ==
    << b[4] \div 128,
       (b[4] % 128) * 2 + b[3] \div 128,
       (b[3] % 128) * 65536 + b[2] * 256 + b[1] >>

FromBuffer(data) ==
    [k \in 1..(Len(data) \div BytesPerSample) |->
        Float32FromBytes(SubSeq(data, BytesPerSample * (k - 1) + 1, BytesPerSample * k))]

\* np.clip(x, -1.0, 1.0) of one float32; nan stays nan.
Clip(f) ==
    IF IsNaN32(f) THEN f
    ELSE IF f[2] > 127 \/ (f[2] = 127 /\ f[3] # 0) THEN <<f[1], 127, 0>>
    ELSE f

\* The scaled sample rounded to the nearest integer (ties away from zero).
ScaleToInt16Nearest(f) ==
    LET mag == IF f[2] < 104 THEN 0
               ELSE ((128 + f[3] \div 65536) * Int16Scale * 2 + Pow2(134 - f[2]))
                        \div (2 * Pow2(134 - f[2]))
    IN  IF f[1] = 1 THEN -mag ELSE mag

\* (x * 32767).astype(np.int16) of a clipped, non-nan float32 whose mantissa
\* has at most 7 leading bits set (the product is then exact in float32):
\* the cast drops the fraction.
ScaleToInt16(f) ==
    LET mag == IF f[2] < 104 THEN 0
               ELSE ((128 + f[3] \div 65536) * Int16Scale) \div Pow2(134 - f[2])
    IN  IF f[1] = 1 THEN -mag ELSE mag

\* What the cast of nan to int16 may leave (it is undefined in C).
NaNCasts == {0, -32768}

\* audio_int16 of a decoded buffer, nancast being what a nan sample becomes.
ToInt16(audio, nancast) ==
    [k \in 1..Len(audio) |->
        IF IsNaN32(Clip(audio[k])) THEN nancast ELSE ScaleToInt16(Clip(audio[k]))]

\* Sample values of the bounded buffers: 0, 1, -1, 1/8, -1/8, 1.5, -2, nan.
Float32Samples == { <<0, 0, 0>>, <<0, 127, 0>>, <<1, 127, 0>>, <<0, 124, 0>>,
                    <<1, 124, 0>>, <<0, 127, 4194304>>, <<1, 128, 0>>, NaN32 }

\* ------------------------------------------------------------- files
\* File names as code points: "f.raw", "f.pcm", "o.wav"; ".raw", ".wav".
NameRaw == <<102, 46, 114, 97, 119>>
NamePcm == <<102, 46, 112, 99, 109>>
NameOut == <<111, 46, 119, 97, 118>>
DotRaw == <<46, 114, 97, 119>>
DotWav == <<46, 119, 97, 118>>

\* An optional string argument: None or a string.
PyNone == <<"None", <<>>>>
PyStr(s) == <<"str", s>>

\* s.replace(old, new): every occurrence of old, left to right.
RECURSIVE ReplaceFrom(_, _, _, _)
ReplaceFrom(s, k, old, new) ==
    IF k > Len(s) THEN <<>>
    ELSE IF k + Len(old) - 1 <= Len(s) /\ SubSeq(s, k, k + Len(old) - 1) = old
    THEN new \o ReplaceFrom(s, k + Len(old), old, new)
    ELSE <<s[k]>> \o ReplaceFrom(s, k + 1, old, new)

StrReplace(s, old, new) == ReplaceFrom(s, 1, old, new)

\* wav_file of convert_to_wav: the name given, or the input name with
\* every ".raw" replaced by ".wav".
WavName(raw_file, wav_file) ==
    IF wav_file = PyNone THEN StrReplace(raw_file, DotRaw, DotWav)
    ELSE wav_file[2]

\* The names the command line is run on, the values of --output for a
\* run on file, and every name a run may touch.
InputNames == {NameRaw, NamePcm}

OutputArgs(file) == {PyNone, PyStr(file), PyStr(NameOut)}

FileNames ==
    InputNames \cup {NameOut} \cup {WavName(n, PyNone) : n \in InputNames}

\* struct.pack("<H", n), struct.pack("<L", n), one int16 of tobytes().
LE16(n) == <<n % 256, (n \div 256) % 256>>

LE32(n) == <<n % 256, (n \div 256) % 256, (n \div 65536) % 256,
            (n \div 16777216) % 256>>

Int16Bytes(y) == LE16((y + 65536) % 65536)

\* The file wave.open(name, "wb") leaves after setnchannels(1),
\* setsampwidth(2), setframerate(44100) and writeframes(frames): the RIFF
\* header ("RIFF", size, "WAVE", "fmt ", 16, PCM, channels, frame rate, byte
\* rate, block align, bits, "data", size) and the frames.
WavBytes(frames) ==
    LET datalength == WavChannels * WavSampWidth * Len(frames)
    IN  <<82, 73, 70, 70>> \o LE32(36 + datalength)
            \o <<87, 65, 86, 69>> \o <<102, 109, 116, 32>> \o LE32(16)
            \o LE16(1) \o LE16(WavChannels) \o LE32(WavFrameRate)
            \o LE32(WavChannels * WavFrameRate * WavSampWidth)
            \o LE16(WavChannels * WavSampWidth) \o LE16(WavSampWidth * 8)
            \o <<100, 97, 116, 97>> \o LE32(datalength)
            \o Flatten([k \in 1..Len(frames) |-> Int16Bytes(frames[k])])

NoFile == [exists |-> FALSE, data |-> <<>>]

NoReport == [status |-> "none", size |-> 0, samples |-> 0, duration |-> <<0, 1>>]

\* convert_to_wav: how it ended, what it returned, the counts it printed,
\* its wav_file and whether wave.open wrote that file.
NoConversion == [status |-> "none", returned |-> PyNone, samples |-> 0,
                 duration |-> <<0, 1>>, wav_file |-> <<>>, written |-> FALSE]

FailedConversion(wav_file, written) ==
    [status |-> "error", returned |-> PyNone, samples |-> 0,
     duration |-> <<0, 1>>, wav_file |-> wav_file, written |-> written]

\* info(raw_file): the lines it prints.
InfoReport(file) ==
    IF ~file.exists
    THEN [status |-> "error", size |-> 0, samples |-> 0, duration |-> <<0, 1>>]
    ELSE [status |-> "ok", size |-> Len(file.data),
          samples |-> Len(file.data) \div BytesPerSample,
          duration |-> <<Len(file.data) \div BytesPerSample, WavFrameRate>>]

\* main(): info runs when asked for or when nothing else is.
RunsInfo(args) == args.info \/ (~args.convert /\ ~args.play)

\* play_with_ffplay(raw_file): subprocess.run(ffplay ..., check=True)
\* returns (ffplay exited with 0), or ffplay is not installed
\* (FileNotFoundError) or exits with an error (both caught and printed), or
\* the run is interrupted (KeyboardInterrupt is no Exception and leaves
\* main).  Nothing here looks at the file.
PlayOutcomes == {"played", "no_ffplay", "error", "interrupted"}

\* -------------------------------------------------------------- state
\* calls: one record per invocation (its arguments, its locals and its
\*        position); stream: how the bit generator is seen, "any" = every
\*        stream of draws is admitted, "pcg" = the one stream the seed fixes.
\* buffer: a float32 waveform handed to the raw PCM contract; files: the
\*        files of the working directory by name; cli: one run of
\*        play_audio.py.
VARIABLES calls, stream, buffer, files, cli

vars == <<calls, stream, buffer, files, cli>>

codec == <<buffer, files, cli>>

CallIds == 1..NumCalls

Range(s) == {s[k] : k \in DOMAIN s}

NewCall(op, text, quarters, rate) ==
    [ op |-> op, text |-> text, duration |-> quarters, sample_rate |-> rate,
      pc |-> CASE op = "fragment" -> "f_seed"
               [] op = "none" -> "unused"
               [] OTHER -> "w_seed",
      seed |-> <<0, 0>>, rng |-> 0, t |-> <<>>, freqs |-> <<>>, i |-> 0,
      waveform |-> <<>>, drawn |-> <<>>, result |-> <<>>, error |-> "",
      words |-> <<>>, cryptic_word |-> <<>>, fragment |-> <<>>,
      audio_bytes |-> <<>>, headers |-> <<>> ]

\* The (duration, sample_rate) pairs of the bounded model.
Shapes == {qr \in Durations \X Rates : SampleCount(qr[1], qr[2]) <= MaxSamples}

\* A generator that belongs to call 1 and is read by every call.
SharedRng(p) == calls[1].rng

\* rng: the generator a call constructs for itself and draws from.
CallRng(p) == calls[p].rng

\* One noise draw too many.
NoiseCountOffByOne(p) == Len(calls[p].t) + 1

\* len(t): the number of standard_normal draws.
NoiseCount(p) == Len(calls[p].t)

\* One draw of call p from the ordered domain dom.
DrawOne(p, dom) ==
    IF stream = "any" THEN Range(dom) ELSE {RngPick(CallRng(p), dom)}

\* k successive draws of call p from dom, in draw order.
DrawMany(p, dom, k) ==
    IF stream = "any" THEN [1..k -> Range(dom)]
    ELSE {[j \in 1..k |-> RngPick(RngAfter(CallRng(p), j - 1), dom)]}

Tag(kind, k) == [j \in 1..k |-> <<kind, j>>]

\* -------------------------------------------- generate_waveform steps
\* seed = uuid5(...).int & 0xFFFFFFFF; rng = np.random.default_rng(seed)
WSeed(p) ==
    /\ calls[p].pc = "w_seed"
    /\ calls' = [calls EXCEPT ![p].seed = Uuid5Low32(calls[p].text),
                              ![p].rng = DefaultRng(Uuid5Low32(calls[p].text)),
                              ![p].pc = "w_linspace"]
    /\ UNCHANGED <<stream, codec>>

\* t = np.linspace(0, duration, int(sample_rate*duration), endpoint=False)
WLinspace(p) ==
    /\ calls[p].pc = "w_linspace"
    /\ calls' = [calls EXCEPT
           ![p].t = Linspace(calls[p].duration,
                             SampleCount(calls[p].duration, calls[p].sample_rate)),
           ![p].pc = "w_freqs"]
    /\ UNCHANGED <<stream, codec>>

\* freqs = rng.uniform(100, 1200, size=5); waveform = np.zeros_like(t)
WFreqs(p) ==
    /\ calls[p].pc = "w_freqs"
    /\ \E fs \in DrawMany(p, FreqValues, FreqCount) :
          calls' = [calls EXCEPT
              ![p].freqs = fs,
              ![p].rng = RngAfter(CallRng(p), FreqCount),
              ![p].drawn = calls[p].drawn \o Tag("freq", FreqCount),
              ![p].waveform = ZerosLike(calls[p].t),
              ![p].i = 0,
              ![p].pc = "w_mix"]
    /\ UNCHANGED <<stream, codec>>

\* for i in range(len(freqs)):
\*     waveform += np.sin(2*np.pi*freqs[i]*t + rng.uniform(0, 2*np.pi))
WMix(p) ==
    /\ calls[p].pc = "w_mix"
    /\ calls[p].i < Len(calls[p].freqs)
    /\ \E phase \in DrawOne(p, PhasesFor(calls[p].t)) :
          calls' = [calls EXCEPT
              ![p].waveform = MixComponent(calls[p].waveform, calls[p].t,
                                           calls[p].freqs[calls[p].i + 1], phase),
              ![p].rng = RngNext(CallRng(p)),
              ![p].drawn = Append(calls[p].drawn, <<"phase", calls[p].i + 1>>),
              ![p].i = calls[p].i + 1,
              ![p].pc = IF calls[p].i + 1 < Len(calls[p].freqs) THEN "w_mix"
                        ELSE "w_noise"]
    /\ UNCHANGED <<stream, codec>>

\* waveform += 0.1*rng.standard_normal(len(t))
WNoise(p) ==
    /\ calls[p].pc = "w_noise"
    /\ \E noise \in DrawMany(p, NormalValues, NoiseCount(p)) :
          calls' = [calls EXCEPT
              ![p].waveform = AddNoise(calls[p].waveform, noise),
              ![p].rng = RngAfter(CallRng(p), NoiseCount(p)),
              ![p].drawn = calls[p].drawn \o Tag("noise", NoiseCount(p)),
              ![p].pc = "w_normalize"]
    /\ UNCHANGED <<stream, codec>>

\* waveform /= np.max(np.abs(waveform)); np.max of an empty array raises
\* ValueError, which nothing in generate_waveform or resonate catches.
WNormalize(p) ==
    /\ calls[p].pc = "w_normalize"
    /\ IF calls[p].waveform = <<>>
       THEN calls' = [calls EXCEPT ![p].error = "ValueError", ![p].pc = "raised"]
       ELSE calls' = [calls EXCEPT
                ![p].waveform = NormalizeBuffer(calls[p].waveform),
                ![p].pc = "w_return"]
    /\ UNCHANGED <<stream, codec>>

\* return waveform.astype(np.float32), sample_rate
WReturn(p) ==
    /\ calls[p].pc = "w_return"
    /\ calls' = [calls EXCEPT
           ![p].result = [k \in 1..Len(calls[p].waveform) |->
                              AsFloat32(calls[p].waveform[k])],
           ![p].pc = IF calls[p].op = "waveform" THEN "done" ELSE "f_seed"]
    /\ UNCHANGED <<stream, codec>>

\* -------------------------------------------- generate_fragment steps
\* words = text.split(); seed = sum(ord(c) ...); rng = default_rng(seed)
FSeed(p) ==
    /\ calls[p].pc = "f_seed"
    /\ calls' = [calls EXCEPT
           ![p].words = Split(calls[p].text),
           ![p].seed = FragmentSeed(calls[p].text),
           ![p].rng = DefaultRng(FragmentSeed(calls[p].text)),
           ![p].pc = "f_choice"]
    /\ UNCHANGED <<stream, codec>>

\* cryptic_word = rng.choice(words) if words else "echo"
FChoice(p) ==
    /\ calls[p].pc = "f_choice"
    /\ IF calls[p].words # <<>>
       THEN \E idx \in DrawOne(p, [k \in 1..Len(calls[p].words) |-> k - 1]) :
              calls' = [calls EXCEPT
                  ![p].cryptic_word = ArrayItem(calls[p].words, idx),
                  ![p].rng = RngNext(CallRng(p)),
                  ![p].pc = "f_abstract"]
       ELSE calls' = [calls EXCEPT ![p].cryptic_word = Fallback,
                                   ![p].pc = "f_abstract"]
    /\ UNCHANGED <<stream, codec>>

\* fragment_words = rng.choice(abstract, size=3); fragment = " ".join(...)
\* return f"{cryptic_word} {fragment}"
FAbstract(p) ==
    /\ calls[p].pc = "f_abstract"
    /\ \E picks \in DrawMany(p, [k \in 1..Len(Abstract) |-> k - 1], AbstractCount) :
          calls' = [calls EXCEPT
              ![p].fragment = FormatFragment(calls[p].cryptic_word,
                                  [j \in 1..AbstractCount |-> Abstract[picks[j] + 1]]),
              ![p].rng = RngAfter(CallRng(p), AbstractCount),
              ![p].pc = IF calls[p].op = "fragment" THEN "done" ELSE "encode"]
    /\ UNCHANGED <<stream, codec>>

\* ------------------------------------------------------ resonate (main.py)
\* audio_bytes = waveform.tobytes(); headers; return Response(...)
Respond(p) ==
    /\ calls[p].pc = "encode"
    /\ calls' = [calls EXCEPT
           ![p].audio_bytes = ToBytes(calls[p].result),
           ![p].headers = <<calls[p].fragment, calls[p].sample_rate>>,
           ![p].pc = "done"]
    /\ UNCHANGED <<stream, codec>>

\* ------------------------------------------------------- play_audio.py
\* The body of a /resonate response (waveform.tobytes()) saved as the file
\* the command line is run on; the transfer may stop after any number of
\* bytes.
SaveBody ==
    /\ cli.pc = "start"
    /\ ~files[cli.args.file].exists
    /\ \E k \in 0..Len(ToBytes(buffer)) :
          files' = [files EXCEPT ![cli.args.file] =
                       [exists |-> TRUE, data |-> SubSeq(ToBytes(buffer), 1, k)]]
    /\ UNCHANGED <<calls, stream, buffer, cli>>

\* main(): if args.info or (not args.convert and not args.play): info(file)
CliInfo ==
    /\ cli.pc = "start"
    /\ cli' = [cli EXCEPT !.report = IF RunsInfo(cli.args)
                                     THEN InfoReport(files[cli.args.file])
                                     ELSE cli.report,
                          !.pc = "info_done"]
    /\ UNCHANGED <<calls, stream, buffer, files>>

\* main(): if args.convert: convert_to_wav(args.file, args.output)
CliConvert ==
    /\ cli.pc = "info_done"
    /\ LET input == files[cli.args.file]
           wav_file == WavName(cli.args.file, cli.args.output)
       IN
       IF ~cli.args.convert
       THEN /\ cli' = [cli EXCEPT !.pc = "convert_done"]
            /\ UNCHANGED files
       ELSE IF ~input.exists \/ ~FromBufferAccepts(input.data)
       THEN \* open() or np.frombuffer raised: except branch, return None
            /\ cli' = [cli EXCEPT
                   !.raw_bytes = input.data,
                   !.conversion = FailedConversion(<<>>, FALSE),
                   !.pc = "convert_done"]
            /\ UNCHANGED files
       ELSE \* audio_data below is the array np.frombuffer returned, before
            \* np.clip replaces it
            \E nancast \in NaNCasts, writable \in BOOLEAN, encodable \in BOOLEAN :
            IF ~writable
            THEN \* wave.open(wav_file, "wb") raised (no such directory, no
                 \* permission): except branch, nothing written
                 /\ cli' = [cli EXCEPT
                        !.raw_bytes = input.data,
                        !.decoded = TRUE,
                        !.audio_data = FromBuffer(input.data),
                        !.conversion = FailedConversion(wav_file, FALSE),
                        !.pc = "convert_done"]
                 /\ UNCHANGED files
            ELSE \* the file named wav_file is created or overwritten, the
                 \* input itself when the two names are one
                 /\ files' = [files EXCEPT ![wav_file] =
                        [exists |-> TRUE,
                         data |-> WavBytes(ToInt16(FromBuffer(input.data), nancast))]]
                 /\ cli' = [cli EXCEPT
                        !.raw_bytes = input.data,
                        !.decoded = TRUE,
                        !.audio_data = FromBuffer(input.data),
                        !.conversion =
                            IF encodable
                            THEN [status |-> "ok", returned |-> PyStr(wav_file),
                                  samples |-> Len(FromBuffer(input.data)),
                                  duration |-> <<Len(FromBuffer(input.data)),
                                                 WavFrameRate>>,
                                  wav_file |-> wav_file, written |-> TRUE]
                            ELSE \* print of the check mark raised on a stdout
                                 \* that cannot encode it: except branch
                                 FailedConversion(wav_file, TRUE),
                        !.pc = "convert_done"]
    /\ UNCHANGED <<calls, stream, buffer>>

\* main(): if args.play: play_with_ffplay(args.file)
CliPlay ==
    /\ cli.pc = "convert_done"
    /\ IF cli.args.play
       THEN \E outcome \in PlayOutcomes :
               cli' = [cli EXCEPT !.playback = outcome,
                                  !.pc = IF outcome = "interrupted" THEN "aborted"
                                         ELSE "exit"]
       ELSE cli' = [cli EXCEPT !.pc = "exit"]
    /\ UNCHANGED <<calls, stream, buffer, files>>

\* ------------------------------------------------------ specifications
\* One call of generate_waveform(text, duration, sample_rate).
Unused == NewCall("none", <<>>, 1, 1)

NewCli(pc, info, convert, play, file, output) ==
    [pc |-> pc,
     args |-> [info |-> info, convert |-> convert, play |-> play,
               file |-> file, output |-> output],
     report |-> NoReport, conversion |-> NoConversion, raw_bytes |-> <<>>,
     decoded |-> FALSE, audio_data |-> <<>>, playback |-> "none"]

NoCodec ==
    /\ buffer = <<>>
    /\ files = [n \in FileNames |-> NoFile]
    /\ cli = NewCli("off", FALSE, FALSE, FALSE, NameRaw, PyNone)

InitWave ==
    /\ stream = "any"
    /\ \E text \in WaveTexts, qr \in Shapes :
          calls = [p \in CallIds |-> IF p = 1 THEN NewCall("waveform", text, qr[1], qr[2])
                                     ELSE Unused]
    /\ NoCodec

NextWave ==
    \/ \E p \in CallIds : WSeed(p)
    \/ \E p \in CallIds : WLinspace(p)
    \/ \E p \in CallIds : WFreqs(p)
    \/ \E p \in CallIds : WMix(p)
    \/ \E p \in CallIds : WNoise(p)
    \/ \E p \in CallIds : WNormalize(p)
    \/ \E p \in CallIds : WReturn(p)

SpecWave == InitWave /\ [][NextWave]_vars

\* One call of generate_fragment(text).
InitFrag ==
    /\ stream = "any"
    /\ \E text \in Texts :
          calls = [p \in CallIds |-> IF p = 1 THEN NewCall("fragment", text, 1, 1)
                                     ELSE Unused]
    /\ NoCodec

NextFrag ==
    \/ \E p \in CallIds : FSeed(p)
    \/ \E p \in CallIds : FChoice(p)
    \/ \E p \in CallIds : FAbstract(p)

SpecFrag == InitFrag /\ [][NextFrag]_vars

\* NumCalls requests to /resonate in flight at once, their steps interleaved.
\* The handler passes no duration or sample_rate: every call runs with the
\* default duration of 2.0 s and the default sample_rate, for which the
\* largest bounded rate stands.  Calls differ only in their text, so the
\* texts are taken in order of length (any other assignment is one of
\* these with the call ids renamed).
InitResonate ==
    /\ stream = "pcg"
    /\ \E texts \in [CallIds -> ResonateTexts] :
          /\ \A p \in CallIds \ {NumCalls} : Len(texts[p]) <= Len(texts[p + 1])
          /\ calls = [p \in CallIds |->
                         NewCall("resonate", texts[p], DefaultQuarters, MaxRate)]
    /\ NoCodec

NextResonate ==
    \/ NextWave
    \/ NextFrag
    \/ \E p \in CallIds : Respond(p)

SpecResonate == InitResonate /\ [][NextResonate]_vars

\* One run of play_audio.py on the file a response body was saved to (or
\* on a file that does not exist), in an empty directory.  --output is
\* read by the conversion alone, so it is given only with --convert.
InitCodec ==
    /\ stream = "any"
    /\ calls = [p \in CallIds |-> Unused]
    /\ buffer \in SeqsUpTo(Float32Samples, MaxBuffer)
    /\ files = [n \in FileNames |-> NoFile]
    /\ \E info \in BOOLEAN, convert \in BOOLEAN, play \in BOOLEAN,
          file \in InputNames :
          \E output \in IF convert THEN OutputArgs(file) ELSE {PyNone} :
              cli = NewCli("start", info, convert, play, file, output)

NextCodec ==
    \/ SaveBody
    \/ CliInfo
    \/ CliConvert
    \/ CliPlay

SpecCodec == InitCodec /\ [][NextCodec]_vars

\* ============================================================== claims
Returned(p) == calls[p].op = "waveform" /\ calls[p].pc = "done"

\* sample_rate*duration of call p, in quarter samples.
ProductQuarters(p) == calls[p].sample_rate * calls[p].duration

\* C1 (as stated): every buffer generate_waveform returns has length
\* round(duration*sample_rate).
C1_LengthIsRounded ==
    \A p \in CallIds :
        Returned(p) => Len(calls[p].result) = PyRound(ProductQuarters(p), 4)

\* C1 (amended): every buffer generate_waveform returns has length
\* int(sample_rate*duration), the product with its fraction dropped: the
\* length n satisfies n <= sample_rate*duration < n + 1.
C1_LengthIsTruncated ==
    \A p \in CallIds :
        Returned(p) =>
            /\ 4 * Len(calls[p].result) <= ProductQuarters(p)
            /\ ProductQuarters(p) < 4 * (Len(calls[p].result) + 1)

\* A call returned a buffer for a product with fraction 1/2 or 3/4.
C1_Witness ==
    \E p \in CallIds :
        /\ Returned(p)
        /\ ProductQuarters(p) % 4 >= 2
        /\ Len(calls[p].result) >= 1

\* C2: generate_waveform never raises for a string and positive duration
\* and sample_rate, the zero-sample time axis included.
C2_NeverRaises == \A p \in CallIds : calls[p].pc # "raised"

\* C3: no buffer generate_waveform returns holds a nan sample (an all-zero
\* buffer is either left alone or rejected with an error).
C3_NoNaNReturned ==
    \A p \in CallIds :
        Returned(p) => \A k \in 1..Len(calls[p].result) : ~IsNaN32(calls[p].result[k])

\* info has just run on a file that is there.
InfoRan ==
    /\ cli.pc = "info_done"
    /\ RunsInfo(cli.args)
    /\ files[cli.args.file].exists

\* C4: info reports an invalid-length error, and no sample count or
\* duration, for a file whose length is not a multiple of 4; for the other
\* files it reports length/4 samples and samples/44100 seconds.
C4_InfoRejectsPartialSample ==
    InfoRan =>
        IF Len(files[cli.args.file].data) % 4 # 0
        THEN cli.report.status = "error" /\ cli.report.samples = 0
        ELSE /\ cli.report.status = "ok"
             /\ 4 * cli.report.samples = Len(files[cli.args.file].data)
             /\ cli.report.duration = <<cli.report.samples, 44100>>

ConvertRan ==
    /\ cli.pc \in {"convert_done", "exit", "aborted"}
    /\ cli.args.convert

\* C5: convert_to_wav on a file whose length is not a multiple of 4 reports
\* an error, returns None, decodes nothing and leaves no WAV file: the
\* input keeps its bytes and no other file appears.
C5_ConvertFailsFast ==
    (ConvertRan /\ Len(cli.raw_bytes) % 4 # 0) =>
        /\ cli.conversion.status = "error"
        /\ cli.conversion.returned = PyNone
        /\ ~cli.decoded /\ cli.audio_data = <<>>
        /\ ~cli.conversion.written
        /\ files[cli.args.file] = [exists |-> TRUE, data |-> cli.raw_bytes]
        /\ \A n \in FileNames \ {cli.args.file} : ~files[n].exists

\* convert_to_wav ran on a file holding one whole sample and a partial one.
C5_Witness ==
    ConvertRan /\ Len(cli.raw_bytes) > 4 /\ Len(cli.raw_bytes) % 4 # 0

\* s.split(" "): the pieces between single spaces, empty pieces kept.
RECURSIVE PiecesFrom(_, _, _)
PiecesFrom(s, k, cur) ==
    IF k > Len(s) THEN <<cur>>
    ELSE IF s[k] = 32 THEN <<cur>> \o PiecesFrom(s, k + 1, <<>>)
    ELSE PiecesFrom(s, k + 1, Append(cur, s[k]))

Pieces(s) == PiecesFrom(s, 1, <<>>)

\* C6: generate_fragment returns four single-space separated tokens: a word
\* of the text (or "echo" when it has none), then three vocabulary tokens.
C6_FragmentShape ==
    \A p \in CallIds :
        (calls[p].op = "fragment" /\ calls[p].pc = "done") =>
            LET toks == Pieces(calls[p].fragment)
                words == Split(calls[p].text)
            IN  /\ calls[p].fragment # <<>>
                /\ Len(toks) = 4
                /\ IF words = <<>> THEN toks[1] = <<101, 99, 104, 111>>
                   ELSE toks[1] \in Range(words)
                /\ \A j \in 2..4 : toks[j] \in Range(Abstract)

Finished(p) == calls[p].pc \in {"done", "raised"}

\* Calls p and q ended the same way with the same buffer, bytes, fragment
\* and headers.
SameOutcome(p, q) ==
    /\ calls[p].pc = calls[q].pc
    /\ calls[p].error = calls[q].error
    /\ calls[p].result = calls[q].result
    /\ calls[p].audio_bytes = calls[q].audio_bytes
    /\ calls[p].fragment = calls[q].fragment
    /\ calls[p].headers = calls[q].headers

\* Finished calls with the same text have the same outcome, and calls with
\* the same text at the same point of the handler hold the same locals
\* (generator state, draws, buffer, fragment): what a call holds depends on
\* its text and on how far it is, not on what ran in between.
AllDeterministic ==
    \A p, q \in CallIds :
        calls[p].text = calls[q].text =>
            /\ (Finished(p) /\ Finished(q)) => SameOutcome(p, q)
            /\ (calls[p].pc = calls[q].pc /\ calls[p].i = calls[q].i) =>
                   calls[p] = calls[q]

\* C7: every step leaves any two /resonate calls with the same text with
\* the same outcome and output once finished, and with the same locals at
\* the same point, however their steps and those of other calls interleave;
\* and a step of one call leaves the records of all other calls as they
\* were (no call writes another's state).
C7_Deterministic ==
    [][ /\ AllDeterministic'
        /\ \E p \in CallIds : \A q \in CallIds \ {p} : calls'[q] = calls[q]
      ]_vars

\* Two calls with the same text both responded with a non-empty body while
\* a call with another text is part of the way through its own work.
C7_Witness ==
    \E p, q, r \in CallIds :
        /\ p # q
        /\ calls[p].text = calls[q].text
        /\ calls[p].pc = "done" /\ calls[q].pc = "done"
        /\ Len(calls[p].audio_bytes) >= 8
        /\ calls[r].text # calls[p].text
        /\ calls[r].pc = "w_mix"

\* C8: decoding the bytes of a float32 buffer gives the buffer back, sample
\* for sample, and the bytes are exactly four per sample.
C8_RoundTrip ==
    /\ Len(ToBytes(buffer)) = 4 * Len(buffer)
    /\ (cli.decoded /\ Len(cli.raw_bytes) = 4 * Len(buffer)) =>
           cli.audio_data = buffer

\* A whole two-sample body with two different samples was decoded.
C8_Witness ==
    /\ cli.decoded
    /\ Len(buffer) >= 2
    /\ Len(cli.raw_bytes) = 4 * Len(buffer)
    /\ buffer[1] # buffer[2]
    /\ buffer[1] # <<0, 0, 0>>

\* |clamp(x, -1, 1)| * 32767 of a sample with exponent field >= 104, as the
\* fraction Numer(f) / Denom(f).
Numer(f) == (128 + Clip(f)[3] \div 65536) * 32767
Denom(f) == Pow2(134 - Clip(f)[2])

\* One int16 read from two little-endian bytes.
Int16FromBytes(b) ==
    LET u == b[1] + 256 * b[2] IN IF u >= 32768 THEN u - 65536 ELSE u

\* The frames of a WAV file of 16-bit mono samples, after its 44 header
\* bytes.
WavFrames(data) ==
    [k \in 1..((Len(data) - 44) \div 2) |->
        Int16FromBytes(SubSeq(data, 44 + 2 * k - 1, 44 + 2 * k))]

\* convert_to_wav wrote its WAV file.
Converted == cli.conversion.written

\* The 16-bit values in the file convert_to_wav wrote.
Written == WavFrames(files[cli.conversion.wav_file].data)

\* C9 (as stated): each 16-bit value is the integer nearest to
\* clamp(x, -1, 1) * 32767 (at most 1/2 away), and lies in [-32767, 32767];
\* nan samples aside.
C9_RoundsToNearest ==
    Converted =>
        /\ Len(Written) = Len(cli.audio_data)
        /\ \A k \in 1..Len(cli.audio_data) :
            LET f == cli.audio_data[k]
                y == Written[k]
            IN  ~IsNaN32(f) =>
                   /\ y \in -32767..32767
                   /\ IF f[2] = 0 THEN y = 0
                      ELSE /\ 2 * Abs(Abs(y) * Denom(f) - Numer(f)) <= Denom(f)
                           /\ (y < 0 => f[1] = 1) /\ (y > 0 => f[1] = 0)

\* C9 (amended): each 16-bit value of a non-nan sample is
\* clamp(x, -1, 1) * 32767 with its fraction dropped (rounded toward zero),
\* and lies in [-32767, 32767].
C9_Truncates ==
    Converted =>
        /\ Len(Written) = Len(cli.audio_data)
        /\ \A k \in 1..Len(cli.audio_data) :
            LET f == cli.audio_data[k]
                y == Written[k]
            IN  ~IsNaN32(f) =>
                   /\ y \in -32767..32767
                   /\ IF f[2] = 0 THEN y = 0
                      ELSE /\ Abs(y) * Denom(f) <= Numer(f)
                           /\ Numer(f) < (Abs(y) + 1) * Denom(f)
                           /\ (y < 0 => f[1] = 1) /\ (y > 0 => f[1] = 0)

\* A file with a sample of magnitude 1/8 (scaled: 4095.875) and a sample
\* outside [-1, 1] was converted.
C9_Witness ==
    /\ Converted
    /\ \E k \in 1..Len(cli.audio_data) : cli.audio_data[k][2] = 124
    /\ \E k \in 1..Len(cli.audio_data) :
          cli.audio_data[k][2] > 127 /\ ~IsNaN32(cli.audio_data[k])

\* The draws of a call with n samples, in order.
DrawOrder(n) ==
    [j \in 1..5 |-> <<"freq", j>>] \o [j \in 1..5 |-> <<"phase", j>>]
        \o [j \in 1..n |-> <<"noise", j>>]

\* C10: the draws of a generate_waveform call are the 5 frequencies, then
\* one phase per component, drawn as that component is mixed, then one
\* noise value per sample; nothing is drawn after the noise, and the buffer
\* is normalized only once the noise is in.
C10_DrawOrder ==
    \A p \in CallIds :
        LET c == calls[p]
            n == SampleCount(c.duration, c.sample_rate)
        IN  /\ Len(c.drawn) <= 10 + n
            /\ c.drawn = SubSeq(DrawOrder(n), 1, Len(c.drawn))
            /\ c.pc = "w_mix" => Len(c.drawn) = 5 + c.i
            /\ c.pc = "w_noise" => Len(c.drawn) = 10
            /\ c.pc \in {"w_normalize", "w_return", "done", "raised"} =>
                   c.drawn = DrawOrder(n)

\* A call with two samples returned, all twelve draws made.
C10_Witness ==
    \E p \in CallIds : Returned(p) /\ Len(calls[p].drawn) = 12

====
